---- MODULE Spec2Model ----
(***************************************************************************)
(* Kamlbot: the identity registry (player.py), the durable files           *)
(* (save_and_load.py) and the bot's handlers and commands (kamlbot.py).    *)
(*                                                                         *)
(* Strings are sequences of one-character strings, so that the parsing     *)
(* and sanitising functions work on characters as the code does.  Python's *)
(* None, used as a dictionary key by add_player, is the key NoneKey.       *)
(* The handlers run on one asyncio event loop: a handler is atomic between *)
(* two awaits that really suspend, which is how the actions are cut.       *)
(***************************************************************************)
EXTENDS Integers, Sequences, FiniteSets, TLC

\* ------------------------------------------------------------------ bounds
MaxGames == 1        \* messages posted on the matchboard in one run
MaxNames == 2        \* names given to one alias command
MaxRanked == 32      \* players in the ranking of SpecBoard
MaxPosts == 2        \* messages posted on the matchboard in SpecLog

\* ----------------------------------------------------------------- strings
Range(s) == {s[i] : i \in 1..Len(s)}
SeqsUpTo(S, n) == UNION {[1..k -> S] : k \in 0..n}

Names == {<<"a">>, <<"b">>, <<"c">>}     \* in-game names used in the runs
GameNames == {<<"a">>, <<"b">>}          \* names appearing on the matchboard
ClaimNames == {<<"b">>, <<"c">>}         \* names given to the alias command
Users == {101, 102}                      \* discord ids of ordinary users
NoneKey == <<"None">>                    \* the key None of a Python dict

\* tokens["jet_id"] and JET_ALIASES
jet_id == 100
JET_ALIASES ==
    { <<"\\","#","L","e","g","a","l","i","z","e","E","d","g","y","M","e","m","e","s">>,
      <<"J","e","t","E","r","i","k","s","e","n">>,
      <<"K","S","R"," ","J","e","t","E","r","i","k","s","e","n">> }

\* --------------------------------------------------------------- dict ops
EmptyDict == [x \in {} |-> 0]
Put(d, k, v) == [x \in DOMAIN d \cup {k} |-> IF x = k THEN v ELSE d[x]]
Del(d, k) == [x \in DOMAIN d \ {k} |-> d[x]]

\* ------------------------------------------------- parse_mention_to_id
DigitVal(c) ==
    CASE c = "0" -> 0 [] c = "1" -> 1 [] c = "2" -> 2 [] c = "3" -> 3
      [] c = "4" -> 4 [] c = "5" -> 5 [] c = "6" -> 6 [] c = "7" -> 7
      [] c = "8" -> 8 [] c = "9" -> 9 [] OTHER -> -1

RECURSIVE DecimalValue(_)
DecimalValue(s) ==
    IF Len(s) = 0 THEN 0
    ELSE 10 * DecimalValue(SubSeq(s, 1, Len(s) - 1)) + DigitVal(s[Len(s)])

\* int(text): the value of a string of decimal digits, ValueError otherwise
IsDecimal(s) == Len(s) > 0 /\ \A i \in 1..Len(s) : DigitVal(s[i]) >= 0

\* re.match(r"<@(.+)>", s): anchored at the start only, the group greedy and
\* without a newline; the positions at which the closing ">" can stand
MentionEnds(s) ==
    {k \in 4..Len(s) : s[k] = ">" /\ \A i \in 3..(k - 1) : s[i] # "\n"}

MentionMatches(s) ==
    Len(s) >= 4 /\ s[1] = "<" /\ s[2] = "@" /\ MentionEnds(s) # {}

MentionGroup(s) ==
    LET k == CHOOSE e \in MentionEnds(s) : \A f \in MentionEnds(s) : f <= e
    IN  SubSeq(s, 3, k - 1)

\* [kind |-> "none"] | [kind |-> "id", id |-> n] | [kind |-> "ValueError"]
parse_mention_to_id(mention) ==
    IF ~MentionMatches(mention) THEN [kind |-> "none"]
    ELSE IF IsDecimal(MentionGroup(mention))
         THEN [kind |-> "id", id |-> DecimalValue(MentionGroup(mention))]
         ELSE [kind |-> "ValueError"]

\* ------------------------------------------------------------------ Player
\* Player.__init__(name=...): an unclaimed player whose sole alias is name
NewUnclaimed(name) ==
    [aliases |-> {name}, claimed |-> FALSE, wins |-> 0, losses |-> 0]

\* Player.__init__(player_id=..., aliases=...): a claimed player
NewClaimed(aliases) ==
    [aliases |-> aliases, claimed |-> TRUE, wins |-> 0, losses |-> 0]

total_games(p) == p.wins + p.losses

\* ----------------------------------------------------------- PlayerManager
\* PlayerManager.__init__: two empty dicts
NewPlayerManager == [alias_to_id |-> EmptyDict, id_to_player |-> EmptyDict]

alias_exists(pm, alias) == alias \in DOMAIN pm.alias_to_id
id_exists(pm, player_id) == player_id \in DOMAIN pm.id_to_player

claimed_ids(pm) == {i \in DOMAIN pm.id_to_player : pm.id_to_player[i].claimed}
claimed_aliases(pm) == UNION {pm.id_to_player[i].aliases : i \in claimed_ids(pm)}
is_claimed(pm, alias) == alias \in claimed_aliases(pm)
id_to_claimed_aliases(pm) == [i \in claimed_ids(pm) |-> pm.id_to_player[i].aliases]

\* alias_to_player[alias] can be evaluated: both lookups of the chain succeed
alias_to_player_ok(pm, alias) ==
    alias_exists(pm, alias) /\ id_exists(pm, pm.alias_to_id[alias])

\* add_player(name=name) with a counter that is never advanced
add_player_name_reuse(pm, idc, name) ==
    [pm  |-> [alias_to_id  |-> Put(pm.alias_to_id, name, idc),
              id_to_player |-> Put(pm.id_to_player, idc, NewUnclaimed(name))],
     idc |-> idc]

\* add_player(name=name); idc is Player._id_counter
add_player_name(pm, idc, name) ==
    [pm  |-> [alias_to_id  |-> Put(pm.alias_to_id, name, idc),
              id_to_player |-> Put(pm.id_to_player, idc, NewUnclaimed(name))],
     idc |-> idc + 1]

\* add_player(player_id=..., aliases=...): name is None, and line 159 still
\* stores alias_to_id[name]
add_player_id(pm, player_id, aliases) ==
    [alias_to_id  |-> Put(pm.alias_to_id, NoneKey, player_id),
     id_to_player |-> Put(pm.id_to_player, player_id, NewClaimed(aliases))]

\* a check that looks at the first proposed alias only
extract_claims_first(pm, aliases) ==
    IF Len(aliases) = 0 THEN {}
    ELSE {a \in {aliases[1]} : is_claimed(pm, a)}

\* extract_claims: the proposed aliases that a claimed player holds
extract_claims(pm, aliases) == {a \in Range(aliases) : is_claimed(pm, a)}

\* extract_claims raises KeyError when it cannot look a claimed alias up
extract_claims_raises(pm, aliases) ==
    \E a \in extract_claims(pm, aliases) : ~alias_to_player_ok(pm, a)

\* lines 177-179 from the i-th found alias on: del id_to_player[past_id],
\* a KeyError ending the loop with what has been deleted so far
RECURSIVE DeleteFound(_, _, _, _)
DeleteFound(id_to_player, alias_to_id, found, i) ==
    IF i > Len(found) THEN [id_to_player |-> id_to_player, err |-> "none"]
    ELSE LET past_id == alias_to_id[found[i]]
         IN  IF past_id \notin DOMAIN id_to_player
             THEN [id_to_player |-> id_to_player, err |-> "KeyError"]
             ELSE DeleteFound(Del(id_to_player, past_id), alias_to_id, found, i + 1)

\* lines 181-182
RECURSIVE BindAll(_, _, _, _)
BindAll(alias_to_id, aliases, player_id, i) ==
    IF i > Len(aliases) THEN alias_to_id
    ELSE BindAll(Put(alias_to_id, aliases[i], player_id), aliases, player_id, i + 1)

\* associate_aliases(player_id, aliases), aliases a sequence.  save_aliases is
\* a coroutine function and line 184 calls it without awaiting the result,
\* so its body never runs and aliases.csv is not written.
associate_aliases(pm, player_id, aliases) ==
    LET found     == SelectSeq(aliases, LAMBDA a : alias_exists(pm, a))
        not_found == SelectSeq(aliases, LAMBDA a : ~alias_exists(pm, a))
        pm1 == IF ~id_exists(pm, player_id)
               THEN add_player_id(pm, player_id, Range(aliases))
               ELSE [pm EXCEPT !.id_to_player[player_id].aliases =
                                    @ \cup Range(aliases)]
        del == DeleteFound(pm1.id_to_player, pm1.alias_to_id, found, 1)
    IN  IF del.err # "none"
        THEN [pm |-> [pm1 EXCEPT !.id_to_player = del.id_to_player],
              err |-> del.err, found |-> found, not_found |-> not_found]
        ELSE [pm |-> [alias_to_id  |-> BindAll(pm1.alias_to_id, aliases, player_id, 1),
                      id_to_player |-> del.id_to_player],
              err |-> "none", found |-> found, not_found |-> not_found]

\* the two kinds of argument of get_player: an int (isinstance(alias, int))
\* and a string
IntArg(n) == [int |-> TRUE, n |-> n, v |-> <<>>]
StrArg(s) == [int |-> FALSE, n |-> 0, v |-> s]

\* get_player(alias, test_mention, create_missing)
get_player(pm, idc, alias, test_mention, create_missing) ==
    LET same(err, id) == [pm |-> pm, idc |-> idc, err |-> err, id |-> id]
        parsed == IF test_mention /\ ~alias.int
                  THEN parse_mention_to_id(alias.v) ELSE [kind |-> "none"]
    IN  IF alias.int
        THEN IF ~id_exists(pm, alias.n)
             THEN same("PlayerNotFoundError", -1)
             ELSE same("none", alias.n)
        ELSE IF parsed.kind = "ValueError" THEN same("ValueError", -1)
        ELSE IF parsed.kind = "id"
             THEN IF id_exists(pm, parsed.id) THEN same("none", parsed.id)
                  ELSE same("KeyError", -1)
        ELSE IF ~alias_exists(pm, alias.v)
             THEN IF create_missing
                  THEN LET r == add_player_name(pm, idc, alias.v)
                       IN  [pm |-> r.pm, idc |-> r.idc, err |-> "none", id |-> idc]
                  ELSE same("PlayerNotFoundError", -1)
        ELSE IF ~id_exists(pm, pm.alias_to_id[alias.v])
             THEN same("KeyError", -1)
             ELSE same("none", pm.alias_to_id[alias.v])

\* ------------------------------------------------------------- clean_name
Whitespace == {" ", "\t", "\n", "\r"}

RECURSIVE LStrip(_)
LStrip(s) == IF Len(s) > 0 /\ s[1] \in Whitespace THEN LStrip(Tail(s)) ELSE s

RECURSIVE RStrip(_)
RStrip(s) ==
    IF Len(s) > 0 /\ s[Len(s)] \in Whitespace
    THEN RStrip(SubSeq(s, 1, Len(s) - 1)) ELSE s

\* str.strip()
Strip(s) == LStrip(RStrip(s))

\* str.replace(old, new) for one-character old and new
Replace(s, old, new) == [i \in 1..Len(s) |-> IF s[i] = old THEN new ELSE s[i]]

clean_name(s) == Replace(Replace(Strip(s), ",", "_"), "\n", " ")

\* ------------------------------------------------------------ aliases.csv
\* str(n) for n >= 0
Digit(d) == SubSeq(<<"0","1","2","3","4","5","6","7","8","9">>, d + 1, d + 1)

RECURSIVE IntToStr(_)
IntToStr(n) == IF n < 10 THEN Digit(n) ELSE IntToStr(n \div 10) \o Digit(n % 10)

\* ','.join(parts)
RECURSIVE Join(_)
Join(parts) ==
    IF Len(parts) = 0 THEN <<>>
    ELSE IF Len(parts) = 1 THEN parts[1]
    ELSE parts[1] \o <<",">> \o Join(Tail(parts))

\* str.split(",")
RECURSIVE Split(_)
Split(s) ==
    IF \A i \in 1..Len(s) : s[i] # "," THEN <<s>>
    ELSE LET k == CHOOSE i \in 1..Len(s) :
                      s[i] = "," /\ \A j \in 1..(i - 1) : s[j] # ","
         IN  <<SubSeq(s, 1, k - 1)>> \o Split(SubSeq(s, k + 1, Len(s)))

\* the line save_aliases writes for one player (lines 183-184)
AliasLine(discord_id, aliases) ==
    IntToStr(discord_id) \o <<",">>
        \o Join([i \in 1..Len(aliases) |-> clean_name(aliases[i])]) \o <<"\n">>

\* the orders in which a dict or a set can be iterated
Orders(S) ==
    {q \in [1..Cardinality(S) -> S] : \A i, j \in 1..Cardinality(S) : q[i] = q[j] => i = j}

\* save_aliases(id_to_aliases) once awaited: the file it writes, the players
\* taken in the order ids and the aliases of player i in the order ord[i]
save_aliases(id_to_aliases, ids, ord) ==
    [k \in 1..Len(ids) |-> AliasLine(ids[k], ord[ids[k]])]

\* the ways save_aliases can iterate over the sets of aliases of the table T
AliasOrders(T) ==
    {ord \in [DOMAIN T -> UNION {Orders(T[i]) : i \in DOMAIN T}] :
        \A i \in DOMAIN T : ord[i] \in Orders(T[i])}

\* load_alias_tables, from the i-th line on (lines 124-135); the file is a
\* sequence of lines, a missing file reads as the empty one (lines 137-139)
RECURSIVE load_alias_tables(_, _, _)
load_alias_tables(file, i, acc) ==
    IF i > Len(file) THEN acc
    ELSE LET parts     == Split(file[i])
             player_id == DecimalValue(Strip(parts[1]))
             aliases   == [k \in 1..(Len(parts) - 1) |-> Strip(parts[k + 1])]
         IN  load_alias_tables(file, i + 1,
                 [alias_to_id   |-> BindAll(acc.alias_to_id, aliases, player_id, 1),
                  id_to_aliases |-> Put(acc.id_to_aliases, player_id, Range(aliases)),
                  order |-> IF player_id \in DOMAIN acc.id_to_aliases THEN acc.order
                            ELSE Append(acc.order, player_id)])

\* PlayerManager.load_data; order is the insertion order of id_to_player,
\* which claimed_players iterates
load_data(file) ==
    LET t == load_alias_tables(file, 1,
                 [alias_to_id |-> EmptyDict, id_to_aliases |-> EmptyDict, order |-> <<>>])
    IN  [pm |-> [alias_to_id  |-> t.alias_to_id,
                 id_to_player |-> [i \in DOMAIN t.id_to_aliases |->
                                       NewClaimed(t.id_to_aliases[i])]],
         order |-> t.order]

\* one turn of the loop of update_mentions (lines 143-145) for player_id
\* whose display name is name
update_mention(pm, player_id, name) ==
    [pm EXCEPT !.alias_to_id = Put(@, name, player_id)]

\* ------------------------------------------------------------- matchboard
\* parse_matchboard_msg: the embed's description has matched WIN_PATTERN or
\* LOSS_PATTERN; msg_id is the message's id, which also orders the messages
parse_matchboard_msg(msg, msg_id) ==
    [id |-> msg_id, winner |-> clean_name(msg.winner), loser |-> clean_name(msg.loser)]

\* fetch_game_results(matchboard, after): the messages after the one with id
\* after (0: from the start), oldest first
fetch_game_results(board, after) ==
    [k \in 1..(Len(board) - after) |-> parse_matchboard_msg(board[after + k], after + k)]

\* get_game_results: the saved games, then the ones fetched after the last
\* saved one, which save_games appends to raw_results.csv
get_game_results(log, board) ==
    LET last_id == IF Len(log) > 0 THEN log[Len(log)].id ELSE 0
        fetched == fetch_game_results(board, last_id)
    IN  [log |-> log \o fetched, games |-> log \o fetched]

\* ---------------------------------------------------------------- Ranking
\* Ranking.register_game on the registry: both names are resolved with
\* get_player (creating missing players), a game of a player against itself
\* is rejected, otherwise the winner's wins and the loser's losses grow by one
register_game(pm, idc, game) ==
    LET w == get_player(pm, idc, StrArg(game.winner), FALSE, TRUE)
        l == get_player(w.pm, w.idc, StrArg(game.loser), FALSE, TRUE)
    IN  IF w.err # "none" THEN [pm |-> w.pm, idc |-> w.idc, out |-> w.err]
        ELSE IF l.err # "none" THEN [pm |-> l.pm, idc |-> l.idc, out |-> l.err]
        ELSE IF w.id = l.id THEN [pm |-> l.pm, idc |-> l.idc, out |-> "rejected"]
        ELSE [pm  |-> [l.pm EXCEPT !.id_to_player[w.id].wins = @ + 1,
                                  !.id_to_player[l.id].losses = @ + 1],
              idc |-> l.idc, out |-> "accepted"]

\* Ranking.fetch_data: register the games in order, from the i-th on; a game
\* whose registration raises is skipped
RECURSIVE register_all(_, _, _, _, _)
register_all(pm, idc, n, games, i) ==
    IF i > Len(games) THEN [pm |-> pm, idc |-> idc, accepted |-> n]
    ELSE LET r == register_game(pm, idc, games[i])
         IN  register_all(r.pm, r.idc, IF r.out = "accepted" THEN n + 1 ELSE n,
                          games, i + 1)

\* ------------------------------------------------------------------ state
VARIABLES
    aliases_csv,      \* the file aliases.csv: a sequence of lines
    raw_results,      \* the file raw_results.csv: a sequence of game records
    matchboard,       \* the messages of the matchboard channel, oldest first
    display_name,     \* discord: each user's display name
    player_manager,   \* Kamlbot.player_manager: <<>> (None) or <<manager>>
    id_counter,       \* Player._id_counter
    is_ready,         \* Kamlbot.is_ready
    pc,               \* where the on_ready handler stands
    mention_todo,     \* update_mentions: the claimed players still to visit
    accepted,         \* the number of games whose update was applied
    passed,           \* the <<user, alias>> that got through the check of alias
    reply,            \* what the last command or handler answered
    ranking,          \* Kamlbot.ranking: the ranked players' ids, best first
    listing,          \* the last leaderboard request and the players it listed
    handlers,         \* the on_ready handlers of SpecReady, each with its locals
    tasks,            \* SpecFiles: the tasks that call the file operations
    sections,         \* SpecFiles: for each file, the locks its operations held
    states            \* SpecHistory: Player.states, in insertion order

vars == <<aliases_csv, raw_results, matchboard, display_name, player_manager,
          id_counter, is_ready, pc, mention_todo, accepted, passed, reply,
          ranking, listing, handlers, tasks, sections, states>>

PM == player_manager[1]

\* what a run finds outside the process: the file aliases.csv (missing, or
\* as a run of save_aliases leaves it) and the users' display names
Environments ==
    { [file |-> <<>>,
       names |-> (101 :> <<"b">> @@ 102 :> <<"c">>)],
      [file |-> <<AliasLine(101, <<<<"a">>>>)>>,
       names |-> (101 :> <<"c">> @@ 102 :> <<"b">>)],
      [file |-> <<AliasLine(101, <<<<"a">>>>), AliasLine(102, <<<<"b">>>>)>>,
       names |-> (101 :> <<"b">> @@ 102 :> <<"c">>)] }

NoReply == [cmd |-> "none", out |-> "none", taken |-> {}]
\* the tasks and files of SpecFiles before any call, and the locks of the
\* decorators (save_and_load.py 116, 144, 177, 187, 197)
Tasks == {1, 2}
Files == {"aliases.csv", "raw_results.csv"}
NoTasks == [t \in Tasks |-> [op |-> "none", pc |-> "idle", arg |-> <<>>]]
NoSections == [f \in Files |-> {}]
NoListing == [start |-> 0, stop |-> 0, players |-> <<>>]
\* an on_ready handler that has not started: where it stands, the claimed
\* players update_mentions has still to visit, the log get_game_results has
\* loaded (its length and last id), the PlayerManager it has built, whether
\* self.player_manager is that one, and the handler whose PlayerManager its
\* Ranking holds
NoHandlers ==
    [h \in {1, 2} |-> [pc |-> "idle", todo |-> <<>>, loaded |-> 0, last_id |-> 0,
                       pm |-> <<>>, current |-> FALSE, target |-> 0]]

Init ==
    /\ \E e \in Environments : aliases_csv = e.file /\ display_name = e.names
    /\ raw_results = <<>>
    /\ matchboard = <<>>
    /\ player_manager = <<>>
    /\ id_counter = 0
    /\ is_ready = FALSE
    /\ pc = "idle"
    /\ mention_todo = <<>>
    /\ accepted = 0
    /\ passed = {}
    /\ reply = NoReply
    /\ ranking = <<>>
    /\ listing = NoListing
    /\ handlers = NoHandlers
    /\ tasks = NoTasks
    /\ sections = NoSections
    /\ states = <<>>

\* ---------------------------------------------------------------- on_ready
\* lines 76-98: the guard, then the channels and two awaited sends
OnReadyBegin ==
    /\ pc = "idle"
    /\ player_manager = <<>>
    /\ pc' = "login"
    /\ UNCHANGED <<tasks, sections, states, ranking, listing, handlers, aliases_csv, raw_results, matchboard, display_name,
                   player_manager, id_counter, is_ready, mention_todo,
                   accepted, reply, passed>>

\* lines 76-78: an on_ready event once the manager exists
OnReadyAgain ==
    /\ player_manager # <<>>
    /\ reply' = [cmd |-> "on_ready", out |-> "Too much on_ready", taken |-> {}]
    /\ UNCHANGED <<tasks, sections, states, ranking, listing, handlers, aliases_csv, raw_results, matchboard, display_name,
                   player_manager, id_counter, is_ready, pc, mention_todo,
                   accepted, passed>>

\* lines 104-106, up to the first fetch_user of update_mentions
OnReadyLoad ==
    /\ pc = "login"
    /\ LET ld == load_data(aliases_csv)
       IN  /\ player_manager' = <<ld.pm>>
           /\ mention_todo' = ld.order
           /\ pc' = IF ld.order = <<>> THEN "mentioned" ELSE "mentions"
    /\ UNCHANGED <<tasks, sections, states, ranking, listing, handlers, aliases_csv, raw_results, matchboard, display_name,
                   id_counter, is_ready, accepted, reply, passed>>

\* update_mentions: fetch_user has answered for the next claimed player
UpdateMention ==
    /\ pc = "mentions"
    /\ LET player_id == Head(mention_todo)
       IN  player_manager' =
               <<update_mention(PM, player_id, display_name[player_id])>>
    /\ mention_todo' = Tail(mention_todo)
    /\ pc' = IF Len(mention_todo) = 1 THEN "mentioned" ELSE "mentions"
    /\ UNCHANGED <<tasks, sections, states, ranking, listing, handlers, aliases_csv, raw_results, matchboard, display_name,
                   id_counter, is_ready, accepted, reply, passed>>

\* lines 108-115: Ranking(player_manager) and fetch_data(matchboard)
OnReadyFetch ==
    /\ pc = "mentioned"
    /\ LET g == get_game_results(raw_results, matchboard)
           r == register_all(PM, id_counter, accepted, g.games, 1)
       IN  /\ raw_results' = g.log
           /\ player_manager' = <<r.pm>>
           /\ id_counter' = r.idc
           /\ accepted' = r.accepted
    /\ pc' = "fetched"
    /\ UNCHANGED <<tasks, sections, states, ranking, listing, handlers, aliases_csv, matchboard, display_name, is_ready,
                   mention_todo, reply, passed>>

\* lines 116-117
OnReadyFinish ==
    /\ pc = "fetched"
    /\ is_ready' = TRUE
    /\ pc' = "ready"
    /\ UNCHANGED <<tasks, sections, states, ranking, listing, handlers, aliases_csv, raw_results, matchboard, display_name,
                   player_manager, id_counter, mention_todo, accepted, reply, passed>>

\* --------------------------------------------------------------- on_message
\* on_message for a message of the matchboard (lines 66-70): a result is
\* posted; it is registered, and then appended to raw_results.csv, only when
\* the bot is ready
on_message_passes == is_ready

\* line 66 reads self.matchboard, an attribute that __init__ (lines 23-33)
\* does not create: on_ready's line 95 does, so that on_message raises
\* AttributeError for every message that comes before on_ready has begun
matchboard_set == pc # "idle"

OnMessageFails(cmd) ==
    /\ reply' = [cmd |-> cmd, out |-> "AttributeError", taken |-> {}]
    /\ UNCHANGED <<tasks, sections, states, ranking, listing, handlers, aliases_csv, raw_results, display_name, player_manager,
                   id_counter, is_ready, pc, mention_todo, accepted, passed>>

on_message_matchboard(winner, loser) ==
    /\ LET msg  == [winner |-> winner, loser |-> loser]
           game == parse_matchboard_msg(msg, Len(matchboard) + 1)
       IN  /\ matchboard' = Append(matchboard, msg)
           /\ IF ~matchboard_set
              THEN /\ reply' = [cmd |-> "game", out |-> "AttributeError", taken |-> {}]
                   /\ UNCHANGED <<player_manager, id_counter, accepted, raw_results>>
              ELSE IF on_message_passes
              THEN LET r == register_game(PM, id_counter, game)
                   IN  /\ player_manager' = <<r.pm>>
                       /\ id_counter' = r.idc
                       /\ accepted' = IF r.out = "accepted"
                                      THEN accepted + 1 ELSE accepted
                       /\ raw_results' = IF r.out = "accepted"
                                         THEN Append(raw_results, game)
                                         ELSE raw_results
                       /\ reply' = [cmd |-> "game", out |-> r.out, taken |-> {}]
              ELSE UNCHANGED <<player_manager, id_counter, accepted,
                               raw_results, reply>>
    /\ UNCHANGED <<tasks, sections, states, ranking, listing, handlers, aliases_csv, display_name,
                   is_ready, pc, mention_todo, passed>>

PostGame(winner, loser) ==
    /\ Len(matchboard) < MaxGames
    /\ on_message_matchboard(winner, loser)

\* ----------------------------------------------------------------- commands
\* check_available, the check every command passes through
check_available == is_ready

NotReady(cmd) ==
    /\ reply' = [cmd |-> cmd, out |-> "not_ready", taken |-> {}]
    /\ UNCHANGED <<tasks, sections, states, ranking, listing, handlers, aliases_csv, raw_results, matchboard, display_name,
                   player_manager, id_counter, is_ready, pc, mention_todo,
                   accepted, passed>>

\* the body of the alias command (lines 170-211): what it leaves in the
\* registry and how it ends.  Line 196 awaits the tuple associate_aliases
\* returns, which raises TypeError after the registry has been changed.
alias(pm, user_id, names) ==
    IF user_id = jet_id /\ \E i \in 1..Len(names) : names[i] \notin JET_ALIASES
    THEN [pm |-> pm, out |-> "anti_jet_meme", taken |-> {}, associated |-> FALSE]
    ELSE IF Len(names) = 0
         THEN [pm |-> pm, out |-> "no_alias_given", taken |-> {}, associated |-> FALSE]
    ELSE IF extract_claims_raises(pm, names)
         THEN [pm |-> pm, out |-> "KeyError", taken |-> {}, associated |-> FALSE]
    ELSE IF extract_claims(pm, names) # {}
         THEN [pm |-> pm, out |-> "not_associated_aliases",
               taken |-> extract_claims(pm, names), associated |-> FALSE]
    ELSE LET r == associate_aliases(pm, user_id, names)
         IN  [pm |-> r.pm, taken |-> {}, associated |-> TRUE,
              out |-> IF r.err # "none" THEN r.err ELSE "TypeError"]

\* the proposed aliases that no claimed player owns in either sense: none
\* holds them and alias_to_id binds none of them to one
FreeAliases(pm, names) ==
    {a \in Range(names) :
        /\ ~is_claimed(pm, a)
        /\ alias_exists(pm, a) => pm.alias_to_id[a] \notin claimed_ids(pm)}

AliasCmd(user_id, names) ==
    IF ~matchboard_set THEN OnMessageFails("alias") /\ UNCHANGED matchboard
    ELSE IF ~check_available THEN NotReady("alias")
    ELSE LET r == alias(PM, user_id, names)
         IN  /\ player_manager' = <<r.pm>>
             /\ reply' = [cmd |-> "alias", out |-> r.out, taken |-> r.taken]
             /\ UNCHANGED <<tasks, sections, states, ranking, listing, handlers, aliases_csv, raw_results, matchboard, display_name,
                            id_counter, is_ready, pc, mention_todo, accepted, passed>>

\* the same command, with the history of who got through the check
AliasCmdTracked(user_id, names) ==
    IF ~matchboard_set THEN OnMessageFails("alias") /\ UNCHANGED matchboard
    ELSE IF ~check_available THEN NotReady("alias")
    ELSE LET r == alias(PM, user_id, names)
         IN  /\ player_manager' = <<r.pm>>
             /\ reply' = [cmd |-> "alias", out |-> r.out, taken |-> r.taken]
             /\ passed' = IF r.associated
                           THEN passed \cup {<<user_id, a>> : a \in FreeAliases(PM, names)}
                           ELSE passed
             /\ UNCHANGED <<tasks, sections, states, ranking, listing, handlers, aliases_csv, raw_results, matchboard, display_name,
                            id_counter, is_ready, pc, mention_todo, accepted>>

\* rank with create_missing left at its default
rank_creating(pm, idc, who) ==
    LET r == get_player(pm, idc, who, TRUE, TRUE)
    IN  [pm |-> r.pm, idc |-> r.idc,
         out |-> IF r.err = "none" THEN "player_rank"
                 ELSE IF r.err = "PlayerNotFoundError" THEN "player_not_found_error"
                 ELSE r.err]

\* the rank command (lines 289-307); who is the author's id when no name is
\* given, a string otherwise
rank(pm, idc, who) ==
    LET r == get_player(pm, idc, who, TRUE, FALSE)
    IN  [pm |-> r.pm, idc |-> r.idc,
         out |-> IF r.err = "none" THEN "player_rank"
                 ELSE IF r.err = "PlayerNotFoundError" THEN "player_not_found_error"
                 ELSE r.err]

RankCmd(who) ==
    IF ~matchboard_set THEN OnMessageFails("rank") /\ UNCHANGED matchboard
    ELSE IF ~check_available THEN NotReady("rank")
    ELSE LET r == rank(PM, id_counter, who)
         IN  /\ player_manager' = <<r.pm>>
             /\ id_counter' = r.idc
             /\ reply' = [cmd |-> "rank", out |-> r.out, taken |-> {}]
             /\ UNCHANGED <<tasks, sections, states, ranking, listing, handlers, aliases_csv, raw_results, matchboard, display_name,
                            is_ready, pc, mention_todo, accepted, passed>>

\* the compare command (lines 235-280)
compare(pm, idc, p1_name, p2_name) ==
    LET p1 == get_player(pm, idc, StrArg(p1_name), TRUE, FALSE)
        p2 == get_player(p1.pm, p1.idc, StrArg(p2_name), TRUE, FALSE)
        out(e) == IF e = "PlayerNotFoundError" THEN "player_not_found_error" ELSE e
    IN  IF p1.err # "none" THEN [pm |-> p1.pm, idc |-> p1.idc, out |-> out(p1.err)]
        ELSE IF p2.err # "none" THEN [pm |-> p2.pm, idc |-> p2.idc, out |-> out(p2.err)]
        ELSE [pm |-> p2.pm, idc |-> p2.idc,
              out |-> IF total_games(p2.pm.id_to_player[p1.id]) > 0
                         /\ total_games(p2.pm.id_to_player[p2.id]) > 0
                      THEN "win_probability" ELSE "win_probability_blind"]

CompareCmd(p1_name, p2_name) ==
    IF ~matchboard_set THEN OnMessageFails("compare") /\ UNCHANGED matchboard
    ELSE IF ~check_available THEN NotReady("compare")
    ELSE LET r == compare(PM, id_counter, p1_name, p2_name)
         IN  /\ player_manager' = <<r.pm>>
             /\ id_counter' = r.idc
             /\ reply' = [cmd |-> "compare", out |-> r.out, taken |-> {}]
             /\ UNCHANGED <<tasks, sections, states, ranking, listing, handlers, aliases_csv, raw_results, matchboard, display_name,
                            is_ready, pc, mention_todo, accepted, passed>>

\* the leaderboard command (lines 217-229), its listing left out
LeaderboardCmd ==
    IF ~matchboard_set THEN OnMessageFails("leaderboard") /\ UNCHANGED matchboard
    ELSE IF ~check_available THEN NotReady("leaderboard")
    ELSE /\ reply' = [cmd |-> "leaderboard", out |-> "leaderboard", taken |-> {}]
         /\ UNCHANGED <<tasks, sections, states, ranking, listing, handlers, aliases_csv, raw_results, matchboard, display_name,
                        player_manager, id_counter, is_ready, pc, mention_todo,
                        accepted, passed>>

\* ------------------------------------------------------------ leaderboard
\* the 30 of line 225
LeaderboardLimit == 30

\* int(text) of lines 219-220: decimal digits after an optional sign
ParseInt(s) ==
    IF Len(s) > 1 /\ s[1] = "-" /\ IsDecimal(Tail(s))
    THEN [ok |-> TRUE, n |-> 0 - DecimalValue(Tail(s))]
    ELSE IF Len(s) > 1 /\ s[1] = "+" /\ IsDecimal(Tail(s))
    THEN [ok |-> TRUE, n |-> DecimalValue(Tail(s))]
    ELSE IF IsDecimal(s) THEN [ok |-> TRUE, n |-> DecimalValue(s)]
    ELSE [ok |-> FALSE, n |-> 0]

\* ranking[start:stop]: the ranking answers a slice as a Python list does,
\* a negative index counting from the end and every index clamped
SliceIndex(i, n) ==
    IF i < 0 THEN (IF i + n < 0 THEN 0 ELSE i + n)
    ELSE (IF i > n THEN n ELSE i)

Slice(L, start, stop) ==
    LET a == SliceIndex(start, Len(L))
        b == SliceIndex(stop, Len(L))
    IN  IF a < b THEN SubSeq(L, a + 1, b) ELSE <<>>

\* Kamlbot.leaderboard_content (lines 50-60): the players listed
leaderboard_content(rk, start, stop) ==
    Slice(rk, IF start >= 0 THEN start - 1 ELSE start, stop)

\* the leaderboard command (lines 217-229), start and stop as typed
leaderboard(rk, start, stop) ==
    LET a == ParseInt(start)
        b == ParseInt(stop)
    IN  IF ~a.ok \/ ~b.ok
        THEN [out |-> "integers_error", start |-> 0, stop |-> 0, players |-> <<>>]
        ELSE IF b.n - a.n > LeaderboardLimit
        THEN [out |-> "at_most_30", start |-> a.n, stop |-> b.n, players |-> <<>>]
        ELSE [out |-> "leaderboard", start |-> a.n, stop |-> b.n,
              players |-> leaderboard_content(rk, a.n, b.n)]

Leaderboard(start, stop) ==
    IF ~matchboard_set THEN OnMessageFails("leaderboard") /\ UNCHANGED matchboard
    ELSE IF ~check_available THEN NotReady("leaderboard")
    ELSE LET r == leaderboard(ranking, start, stop)
         IN  /\ reply' = [cmd |-> "leaderboard", out |-> r.out, taken |-> {}]
             /\ listing' = [start |-> r.start, stop |-> r.stop, players |-> r.players]
             /\ UNCHANGED <<tasks, sections, states, ranking, handlers, aliases_csv, raw_results, matchboard,
                            display_name, player_manager, id_counter, is_ready,
                            pc, mention_todo, accepted, passed>>

\* ------------------------------------------------------------------ inputs
Mention(body) == <<"<", "@">> \o body \o <<">">>

\* the mention tokens tried: a registered id, an unregistered one, and the
\* nickname form <@!id>
MentionTokens ==
    {Mention(IntToStr(101)), Mention(IntToStr(103)), Mention(<<"!">> \o IntToStr(101))}

JetBatches == {<<>>, <<<<"b">>>>}
AliasBatches == SeqsUpTo(ClaimNames, MaxNames)
LookupNames == {<<"a">>} \cup MentionTokens
LookupArgs == {IntArg(u) : u \in Users} \cup {StrArg(s) : s \in LookupNames}
CompareNames == {<<"a">>, <<"b">>, Mention(IntToStr(103))}

\* the events of a run: a result between two different names is posted, a
\* user or the jet user sends the alias command, someone asks for a rank or a
\* comparison
MatchboardMessage == \E w, l \in GameNames : w # l /\ PostGame(w, l)
UserAlias == \E u \in Users, names \in AliasBatches : AliasCmd(u, names)
JetAlias == \E names \in JetBatches : AliasCmd(jet_id, names)
UserAliasTracked == \E u \in Users, names \in AliasBatches : AliasCmdTracked(u, names)
Rank == \E who \in LookupArgs : RankCmd(who)
Compare == \E a, b \in CompareNames : CompareCmd(a, b)

Next ==
    \/ OnReadyBegin
    \/ OnReadyAgain
    \/ OnReadyLoad
    \/ UpdateMention
    \/ OnReadyFetch
    \/ OnReadyFinish
    \/ MatchboardMessage
    \/ UserAlias
    \/ JetAlias
    \/ Rank
    \/ Compare
    \/ LeaderboardCmd

Spec == Init /\ [][Next]_vars

\* the registry's operations alone, the alias command keeping its history
NextTracked ==
    \/ OnReadyBegin
    \/ OnReadyLoad
    \/ UpdateMention
    \/ OnReadyFetch
    \/ OnReadyFinish
    \/ MatchboardMessage
    \/ UserAliasTracked

SpecTracked == Init /\ [][NextTracked]_vars

\* ------------------------------------------------------------------ SpecLog
\* Runs with up to MaxPosts results between names that need sanitising, and
\* claims of one name: the names on the matchboard and in the files.
RawNames == {<<"b">>, <<",", "_">>, <<"_", ",">>}
RawClaims == {<<"b">>, <<",", "_">>}

MatchboardRaw ==
    \E w, l \in RawNames :
        /\ clean_name(w) # clean_name(l)
        /\ Len(matchboard) < MaxPosts
        /\ on_message_matchboard(w, l)

ClaimRaw == \E u \in Users, a \in RawClaims : AliasCmd(u, <<a>>)

NextLog ==
    \/ OnReadyBegin
    \/ OnReadyLoad
    \/ UpdateMention
    \/ OnReadyFetch
    \/ OnReadyFinish
    \/ MatchboardRaw
    \/ ClaimRaw

SpecLog == Init /\ [][NextLog]_vars

\* ---------------------------------------------------------------- SpecFiles
\* Tasks that await the five file operations of save_and_load.py.  Each is
\* wrapped by locking(name): the wrapper takes the lock of that name, runs
\* the body and releases the lock.  No body holds an await, so the event
\* loop runs no other task between the acquisition and the release.
FileOps == {"load_alias_tables", "save_aliases", "load_game_results",
            "save_games", "save_single_game"}

\* the argument of each decorator
LockOf(op) ==
    CASE op = "load_alias_tables" -> "alias.txt"
      [] op = "save_aliases"      -> "aliases.csv"
      [] op = "load_game_results" -> "raw_results.csv"
      [] op = "save_games"        -> "raw_results.csv"
      [] op = "save_single_game"  -> "raw_results.csv"

\* the file each body opens
FileOf(op) ==
    CASE op = "load_alias_tables" -> "aliases.csv"
      [] op = "save_aliases"      -> "aliases.csv"
      [] op = "load_game_results" -> "raw_results.csv"
      [] op = "save_games"        -> "raw_results.csv"
      [] op = "save_single_game"  -> "raw_results.csv"

Inside(t) == tasks[t].pc # "idle"
Held == {LockOf(tasks[t].op) : t \in {u \in Tasks : Inside(u)}}

FilesFrame ==
    UNCHANGED <<matchboard, display_name, player_manager, id_counter, is_ready, pc,
                mention_todo, accepted, passed, reply, ranking, listing, handlers,
                states>>

\* a task awaits op(arg): the wrapper takes the lock
Call(t, op, arg) ==
    /\ \A u \in Tasks : ~Inside(u)
    /\ LockOf(op) \notin Held
    /\ tasks' = [tasks EXCEPT ![t] = [op |-> op, pc |-> "inside", arg |-> arg]]
    /\ sections' = [sections EXCEPT ![FileOf(op)] = @ \cup {LockOf(op)}]
    /\ UNCHANGED <<aliases_csv, raw_results>>
    /\ FilesFrame

\* the body runs: the loads read their file, save_aliases rewrites
\* aliases.csv, save_games and save_single_game append to raw_results.csv
Body(t) ==
    /\ tasks[t].pc = "inside"
    /\ aliases_csv' = IF tasks[t].op = "save_aliases" THEN tasks[t].arg
                      ELSE aliases_csv
    /\ raw_results' = IF tasks[t].op \in {"save_games", "save_single_game"}
                      THEN raw_results \o tasks[t].arg
                      ELSE raw_results
    /\ tasks' = [tasks EXCEPT ![t].pc = "done"]
    /\ UNCHANGED sections
    /\ FilesFrame

\* the wrapper releases the lock and the call returns
Return(t) ==
    /\ tasks[t].pc = "done"
    /\ tasks' = [tasks EXCEPT ![t] = [op |-> "none", pc |-> "idle", arg |-> <<>>]]
    /\ UNCHANGED <<aliases_csv, raw_results, sections>>
    /\ FilesFrame

\* the tables and games the callers pass
AliasTables ==
    {EmptyDict, 101 :> {<<"a">>}, 101 :> {<<"a">>} @@ 102 :> {<<"b">>}}
NewGames(n) ==
    [k \in 1..n |-> [id |-> Len(raw_results) + k, winner |-> <<"a">>, loser |-> <<"b">>]]

LoadAliasTables == \E t \in Tasks : Call(t, "load_alias_tables", <<>>)
SaveAliases ==
    \E t \in Tasks, T \in AliasTables :
        \E ids \in Orders(DOMAIN T), ord \in AliasOrders(T) :
            Call(t, "save_aliases", save_aliases(T, ids, ord))
LoadGameResults == \E t \in Tasks : Call(t, "load_game_results", <<>>)
SaveGames ==
    \E t \in Tasks, n \in 0..MaxPosts :
        /\ Len(raw_results) + n <= MaxPosts
        /\ Call(t, "save_games", NewGames(n))
SaveSingleGame ==
    \E t \in Tasks :
        /\ Len(raw_results) < MaxPosts
        /\ Call(t, "save_single_game", NewGames(1))
RunBody == \E t \in Tasks : Body(t)
Returns == \E t \in Tasks : Return(t)

NextFiles ==
    \/ LoadAliasTables
    \/ SaveAliases
    \/ LoadGameResults
    \/ SaveGames
    \/ SaveSingleGame
    \/ RunBody
    \/ Returns

SpecFiles == Init /\ [][NextFiles]_vars

\* -------------------------------------------------------------- SpecHistory
\* The history of one player: Player.states, an OrderedDict, is a sequence
\* of snapshots in insertion order.  Times are counted in tenths of a second;
\* save_state gets the timestamp of a game as the number a matchboard message
\* carries or as the text raw_results.csv keeps of it.
MaxTime == 3

NumberArg(n) == [text |-> FALSE, n |-> n, s |-> <<>>]
TextArg(s) == [text |-> TRUE, n |-> 0, s |-> s]
FloatText(n) == IntToStr(n \div 10) \o <<".">> \o IntToStr(n % 10)

\* float(timestamp), line 86
Float(timestamp) ==
    IF ~timestamp.text THEN timestamp.n
    ELSE LET s == timestamp.s
             dot == CHOOSE i \in 1..Len(s) : s[i] = "."
         IN  10 * DecimalValue(SubSeq(s, 1, dot - 1))
                + DecimalValue(SubSeq(s, dot + 1, Len(s)))

\* save_state(timestamp, rank) of a player whose rating is rating: an item
\* assignment in the OrderedDict, which keeps the place of a key it has
PlayerState(key, rank_, rating) == [key |-> key, rank |-> rank_, rating |-> rating]
save_state(st, timestamp, rank_, rating) ==
    LET key == Float(timestamp)
    IN  IF \E i \in 1..Len(st) : st[i].key = key
        THEN [i \in 1..Len(st) |-> IF st[i].key = key
                                   THEN PlayerState(key, rank_, rating) ELSE st[i]]
        ELSE Append(st, PlayerState(key, rank_, rating))

TimestampArgs ==
    {NumberArg(n) : n \in 1..MaxTime} \cup {TextArg(FloatText(n)) : n \in 1..MaxTime}
Ranks == {0, 1}
Ratings == {1, 2}

SaveState ==
    /\ \E timestamp \in TimestampArgs, rank_ \in Ranks, rating \in Ratings :
           states' = save_state(states, timestamp, rank_, rating)
    /\ UNCHANGED <<aliases_csv, raw_results, matchboard, display_name, player_manager,
                   id_counter, is_ready, pc, mention_todo, accepted, passed, reply,
                   ranking, listing, handlers, tasks, sections>>

NextHistory == SaveState

SpecHistory == Init /\ [][NextHistory]_vars

\* ---------------------------------------------------------------- SpecReady
\* Two on_ready events, their handlers interleaved at the awaits of on_ready:
\* change_presence and debug (lines 97-98), the lock and fetch_user of
\* update_mentions, the history request of get_game_results, the last debug.
\* The matchboard holds the results posted before the bot started.  The
\* handlers stand in handlers; pc and mention_todo, those of the single
\* handler of Spec, are left alone.
Handlers == {1, 2}
Other(h) == 3 - h

InitReady ==
    /\ \E e \in Environments : aliases_csv = e.file /\ display_name = e.names
    /\ \E board \in SeqsUpTo({[winner |-> <<"b">>, loser |-> <<"a">>]}, MaxGames) :
           matchboard = board
    /\ raw_results = <<>>
    /\ player_manager = <<>>
    /\ id_counter = 0
    /\ is_ready = FALSE
    /\ pc = "idle"
    /\ mention_todo = <<>>
    /\ accepted = 0
    /\ passed = {}
    /\ reply = NoReply
    /\ ranking = <<>>
    /\ listing = NoListing
    /\ handlers = NoHandlers
    /\ tasks = NoTasks
    /\ sections = NoSections
    /\ states = <<>>

ReadyFrame ==
    UNCHANGED <<aliases_csv, matchboard, display_name, pc, mention_todo, passed,
                ranking, listing, tasks, sections, states>>

\* lines 76-98: the guard passes, the channels are found, and the handler
\* waits for change_presence
ReadyBegin(h) ==
    /\ handlers[h].pc = "idle"
    /\ player_manager = <<>>
    /\ handlers' = [handlers EXCEPT ![h].pc = "login"]
    /\ UNCHANGED <<raw_results, player_manager, id_counter, is_ready, accepted, reply>>
    /\ ReadyFrame

\* lines 76-78: the guard sends the handler back
ReadyRefused(h) ==
    /\ handlers[h].pc = "idle"
    /\ player_manager # <<>>
    /\ handlers' = [handlers EXCEPT ![h].pc = "refused"]
    /\ reply' = [cmd |-> "on_ready", out |-> "Too much on_ready", taken |-> {}]
    /\ UNCHANGED <<raw_results, player_manager, id_counter, is_ready, accepted>>
    /\ ReadyFrame

\* lines 104-106: self.player_manager = PlayerManager(), load_data, and the
\* wait for the lock of update_mentions
ReadyLoad(h) ==
    /\ handlers[h].pc = "login"
    /\ LET ld == load_data(aliases_csv)
       IN  /\ player_manager' = <<ld.pm>>
           /\ handlers' = [handlers EXCEPT ![h].pc = "loaded",
                                           ![h].pm = <<ld.pm>>,
                                           ![h].current = TRUE,
                                           ![Other(h)].current = FALSE]
    /\ UNCHANGED <<raw_results, id_counter, is_ready, accepted, reply>>
    /\ ReadyFrame

\* update_mentions takes its lock (line 140) and lists the claimed players
ReadyMentions(h) ==
    /\ handlers[h].pc = "loaded"
    /\ handlers[Other(h)].pc # "mentions"
    /\ LET order == load_data(aliases_csv).order
       IN  handlers' = [handlers EXCEPT
                           ![h].todo = order,
                           ![h].pc = IF order = <<>> THEN "mentioned" ELSE "mentions"]
    /\ UNCHANGED <<raw_results, player_manager, id_counter, is_ready, accepted, reply>>
    /\ ReadyFrame

\* lines 143-145: fetch_user has answered; the name is bound in the
\* PlayerManager that self.player_manager is now
ReadyMention(h) ==
    /\ handlers[h].pc = "mentions"
    /\ LET player_id == Head(handlers[h].todo)
           new == update_mention(PM, player_id, display_name[player_id])
           owner == CHOOSE g \in Handlers : handlers[g].current
       IN  /\ player_manager' = <<new>>
           /\ handlers' = [handlers EXCEPT
                   ![owner].pm = <<new>>,
                   ![h].todo = Tail(handlers[h].todo),
                   ![h].pc = IF Len(handlers[h].todo) = 1 THEN "mentioned"
                             ELSE "mentions"]
    /\ UNCHANGED <<raw_results, id_counter, is_ready, accepted, reply>>
    /\ ReadyFrame

\* line 108 and get_game_results lines 84-96: Ranking(self.player_manager),
\* the log is loaded and the history requested after its last event
ReadyFetchBegin(h) ==
    /\ handlers[h].pc = "mentioned"
    /\ handlers' = [handlers EXCEPT
           ![h].pc = "fetching",
           ![h].target = CHOOSE g \in Handlers : handlers[g].current,
           ![h].loaded = Len(raw_results),
           ![h].last_id = IF Len(raw_results) > 0
                          THEN raw_results[Len(raw_results)].id ELSE 0]
    /\ UNCHANGED <<raw_results, player_manager, id_counter, is_ready, accepted, reply>>
    /\ ReadyFrame

\* get_game_results lines 96-102 and the rest of fetch_data: the history has
\* come, save_games appends it to the log, and the loaded and fetched games
\* are registered in the PlayerManager of the handler's Ranking
ReadyFetchEnd(h) ==
    /\ handlers[h].pc = "fetching"
    /\ LET fetched == fetch_game_results(matchboard, handlers[h].last_id)
           games == SubSeq(raw_results, 1, handlers[h].loaded) \o fetched
           o == handlers[h].target
           r == register_all(handlers[o].pm[1], id_counter, accepted, games, 1)
       IN  /\ raw_results' = raw_results \o fetched
           /\ id_counter' = r.idc
           /\ accepted' = r.accepted
           /\ handlers' = [handlers EXCEPT ![o].pm = <<r.pm>>, ![h].pc = "fetched"]
           /\ player_manager' = IF handlers[o].current THEN <<r.pm>>
                                ELSE player_manager
    /\ UNCHANGED <<is_ready, reply>>
    /\ ReadyFrame

\* lines 115-117
ReadyFinish(h) ==
    /\ handlers[h].pc = "fetched"
    /\ is_ready' = TRUE
    /\ handlers' = [handlers EXCEPT ![h].pc = "ready"]
    /\ UNCHANGED <<raw_results, player_manager, id_counter, accepted, reply>>
    /\ ReadyFrame

NextReady ==
    \E h \in Handlers :
        \/ ReadyBegin(h)
        \/ ReadyRefused(h)
        \/ ReadyLoad(h)
        \/ ReadyMentions(h)
        \/ ReadyMention(h)
        \/ ReadyFetchBegin(h)
        \/ ReadyFetchEnd(h)
        \/ ReadyFinish(h)

SpecReady == InitReady /\ [][NextReady]_vars

\* ---------------------------------------------------------------- SpecBoard
\* The leaderboard command on a ready bot whose replay has ranked n players:
\* the registry holds n unclaimed players named by numbers, and the ranking
\* lists their ids, best first.
Signed(n) == IF n < 0 THEN <<"-">> \o IntToStr(0 - n) ELSE IntToStr(n)
LeaderboardArgs ==
    {Signed(n) : n \in {-31, -1, 0, 1, 3, 10, 20, 31}} \cup {<<"x">>}

RankedRegistry(n) ==
    [alias_to_id  |-> [a \in {IntToStr(i) : i \in 0..(n - 1)} |->
                          CHOOSE i \in 0..(n - 1) : IntToStr(i) = a],
     id_to_player |-> [i \in 0..(n - 1) |-> NewUnclaimed(IntToStr(i))]]

InitBoard ==
    /\ \E n \in 0..MaxRanked :
           /\ ranking = [r \in 1..n |-> n - r]
           /\ player_manager = <<RankedRegistry(n)>>
           /\ id_counter = n
    /\ aliases_csv = <<>>
    /\ display_name = (101 :> <<"b">> @@ 102 :> <<"c">>)
    /\ raw_results = <<>>
    /\ matchboard = <<>>
    /\ is_ready = TRUE
    /\ pc = "ready"
    /\ mention_todo = <<>>
    /\ accepted = 0
    /\ passed = {}
    /\ reply = NoReply
    /\ listing = NoListing
    /\ handlers = NoHandlers
    /\ tasks = NoTasks
    /\ sections = NoSections
    /\ states = <<>>

NextBoard == \E start, stop \in LeaderboardArgs : Leaderboard(start, stop)

SpecBoard == InitBoard /\ [][NextBoard]_vars

\* ================================================================== claims
HasPM == player_manager # <<>>


\* alias a belongs to a claimed player other than user_id: that player holds
\* it and alias_to_id resolves it to that player
OwnedByOtherClaimed(pm, user_id, a) ==
    /\ alias_exists(pm, a)
    /\ pm.alias_to_id[a] \in claimed_ids(pm) \ {user_id}
    /\ a \in pm.id_to_player[pm.alias_to_id[a]].aliases

\* alias a is owned by nobody, or by an unclaimed player
OwnedByNoClaimed(pm, a) ==
    /\ ~is_claimed(pm, a)
    /\ alias_exists(pm, a) =>
           /\ id_exists(pm, pm.alias_to_id[a])
           /\ ~pm.id_to_player[pm.alias_to_id[a]].claimed

\* the case of C1: of the batch, foo alone belongs to another claimed player
\* and there is at least one other proposed alias
ConflictCase(pm, user_id, names, foo) ==
    /\ foo \in Range(names)
    /\ Range(names) # {foo}
    /\ OwnedByOtherClaimed(pm, user_id, foo)
    /\ \A a \in Range(names) \ {foo} : OwnedByNoClaimed(pm, a)

C2_NoSilentOverwrite ==
    [][(HasPM /\ player_manager' # <<>>)
          => /\ \A a \in DOMAIN PM.alias_to_id \ {NoneKey} :
                    PM.alias_to_id[a] \in claimed_ids(PM)
                        => PM'.alias_to_id[a] = PM.alias_to_id[a]
             /\ \A i \in claimed_ids(PM) : i \in DOMAIN PM'.id_to_player]_vars

\* C3: every key of alias_to_id maps to an id present in id_to_player, and
\* that player's aliases contain the key.
C3_RegistryConsistent ==
    HasPM => \A a \in DOMAIN PM.alias_to_id :
                 /\ PM.alias_to_id[a] \in DOMAIN PM.id_to_player
                 /\ a \in PM.id_to_player[PM.alias_to_id[a]].aliases

\* C4: no alias is in the aliases of two different players of id_to_player,
\* and every player of id_to_player has at least one alias.
C4_AliasesUnique ==
    HasPM => /\ \A i, j \in DOMAIN PM.id_to_player :
                    i # j => PM.id_to_player[i].aliases
                                 \cap PM.id_to_player[j].aliases = {}
             /\ \A i \in DOMAIN PM.id_to_player : PM.id_to_player[i].aliases # {}

RECURSIVE SumOver(_, _)
SumOver(f, S) ==
    IF S = {} THEN 0
    ELSE LET x == CHOOSE y \in S : TRUE IN f[x] + SumOver(f, S \ {x})

TotalWins(pm) ==
    SumOver([i \in DOMAIN pm.id_to_player |-> pm.id_to_player[i].wins],
            DOMAIN pm.id_to_player)
TotalLosses(pm) ==
    SumOver([i \in DOMAIN pm.id_to_player |-> pm.id_to_player[i].losses],
            DOMAIN pm.id_to_player)

\* C5: at every point the wins of all players of the registry sum to the
\* losses of all players and to the number of accepted games.
C5_WinsEqualLosses ==
    HasPM => /\ TotalWins(PM) = TotalLosses(PM)
             /\ TotalWins(PM) = accepted

\* update_mentions run to its end over the claimed players in order
RECURSIVE update_mentions(_, _, _, _)
update_mentions(pm, order, names, i) ==
    IF i > Len(order) THEN pm
    ELSE update_mentions(update_mention(pm, order[i], names[order[i]]),
                         order, names, i + 1)

\* on_ready in a fresh process, whose Player._id_counter is 0, on the files
\* as they are now: load_data, update_mentions, then the log replayed
Replayed ==
    LET ld == load_data(aliases_csv)
        pm == update_mentions(ld.pm, ld.order, display_name, 1)
    IN  register_all(pm, 0, 0, raw_results, 1).pm

\* what the registry records under name: nothing, or the counters and the
\* claimed flag of the player the name resolves to
RecordOf(pm, name) ==
    IF ~alias_to_player_ok(pm, name) THEN <<"none", 0, 0>>
    ELSE LET p == pm.id_to_player[pm.alias_to_id[name]]
         IN  <<IF p.claimed THEN "claimed" ELSE "unclaimed", p.wins, p.losses>>

\* C6: once the bot is ready, loading the alias snapshot and replaying the
\* durable log from empty state gives every name the same player counters
\* as the live registry has.
C6_ReplayEquivalence ==
    is_ready => \A name \in Names : RecordOf(Replayed, name) = RecordOf(PM, name)

\* the claimed-alias table that aliases.csv holds
Snapshot ==
    load_alias_tables(aliases_csv, 1,
        [alias_to_id |-> EmptyDict, id_to_aliases |-> EmptyDict,
         order |-> <<>>]).id_to_aliases

\* C7: whenever the bot is ready, that is between two operations, the
\* snapshot on disk equals id_to_claimed_aliases.
C7_SnapshotCurrent ==
    is_ready => Snapshot = id_to_claimed_aliases(PM)

\* a command step, whichever command and arguments
CommandStep ==
    \/ UserAlias
    \/ JetAlias
    \/ Rank
    \/ Compare
    \/ LeaderboardCmd

\* C8: is_ready starts false, becomes true only in the step that ends
\* on_ready after the alias table is loaded and the log replayed, and never
\* returns to false; while it is false every command is answered not_ready
\* and changes nothing, and a matchboard message registers no game.
C8_Lifecycle ==
    /\ ~is_ready
    /\ [][/\ is_ready => is_ready'
          /\ (~is_ready /\ is_ready') =>
                 /\ pc = "fetched" /\ pc' = "ready"
                 /\ HasPM /\ mention_todo = <<>>
          /\ (~is_ready /\ CommandStep) =>
                 /\ reply'.out = "not_ready"
                 /\ UNCHANGED <<player_manager, id_counter, raw_results, accepted>>
          /\ (~is_ready /\ MatchboardMessage) =>
                 UNCHANGED <<player_manager, id_counter, raw_results, accepted,
                             reply>>]_vars

\* C9: of the users whose alias command got through the check with an alias
\* that no claimed player owned, at most one did so for any given alias: the
\* others are refused.
C9_OneClaimPerAlias ==
    \A a \in ClaimNames : Cardinality({u \in Users : <<u, a>> \in passed}) <= 1

\* who names a stable identity that the registry does not know
UnknownIdentity(pm, who) ==
    \/ who.int /\ ~id_exists(pm, who.n)
    \/ /\ ~who.int
       /\ parse_mention_to_id(who.v).kind = "id"
       /\ ~id_exists(pm, parse_mention_to_id(who.v).id)

\* C10: the rank command on an unknown integer id or mention <@id> ends in
\* the player_not_found_error reply, PlayerNotFoundError being the only error
\* get_player raises there, and leaves the registry and the id counter alone.
C10_UnknownIdentity ==
    [][\A who \in LookupArgs :
          (is_ready /\ UnknownIdentity(PM, who) /\ RankCmd(who))
              => /\ reply'.out = "player_not_found_error"
                 /\ UNCHANGED <<player_manager, id_counter>>]_vars

\* a string that get_player treats as free text and that no alias matches
UnknownFreeText(pm, who) ==
    /\ ~who.int
    /\ parse_mention_to_id(who.v).kind = "none"
    /\ ~alias_exists(pm, who.v)

\* C11: a rank or compare command, which look players up with
\* create_missing=False, leaves alias_to_id, id_to_player and the id counter
\* as they were, whether the player is found or not; rank on an unknown
\* free-text name answers player_not_found_error.
C11_StrictLookupPure ==
    [][(is_ready /\ reply'.cmd \in {"rank", "compare"} /\ (Rank \/ Compare)) =>
          /\ UNCHANGED <<player_manager, id_counter>>
          /\ \A who \in LookupArgs :
                 (UnknownFreeText(PM, who) /\ RankCmd(who))
                     => reply'.out = "player_not_found_error"]_vars

\* rank has just answered player_not_found_error for the name a, which the
\* registry still does not know
C11_Witness ==
    /\ is_ready
    /\ reply.cmd = "rank" /\ reply.out = "player_not_found_error"
    /\ UnknownFreeText(PM, StrArg(<<"a">>))

\* alias a is the sole alias of an unclaimed player that alias_to_id binds
\* it to
LazilyCreated(pm, a) ==
    /\ alias_to_player_ok(pm, a)
    /\ pm.id_to_player[pm.alias_to_id[a]] \in
           {[NewUnclaimed(a) EXCEPT !.wins = w, !.losses = l] :
                w \in 0..MaxGames, l \in 0..MaxGames}

\* C12: in every registry the program reaches, get_player(alias,
\* create_missing=True) on an unknown alias adds exactly one unclaimed
\* player, with an id no player has, aliases {alias} and no game; asking
\* again returns that player and adds nothing; another unknown alias gets
\* another id.  And a player so created stays bound to its alias through
\* every step that is not an alias command.
C12_LazyCreation ==
    /\ [](HasPM => \A a \in Names : ~alias_exists(PM, a) =>
            LET r     == get_player(PM, id_counter, StrArg(a), FALSE, TRUE)
                again == get_player(r.pm, r.idc, StrArg(a), FALSE, TRUE)
            IN  /\ r.err = "none"
                /\ ~id_exists(PM, r.id)
                /\ r.pm.id_to_player = Put(PM.id_to_player, r.id, NewUnclaimed(a))
                /\ r.pm.alias_to_id = Put(PM.alias_to_id, a, r.id)
                /\ again = r
                /\ \A b \in Names \ {a} : ~alias_exists(r.pm, b) =>
                       get_player(r.pm, r.idc, StrArg(b), FALSE, TRUE).id # r.id)
    /\ [][(HasPM /\ reply'.cmd # "alias") =>
            \A a \in Names : LazilyCreated(PM, a) =>
                /\ LazilyCreated(PM', a)
                /\ PM'.alias_to_id[a] = PM.alias_to_id[a]]_vars

\* a posted game has created both of its players, with different ids, and
\* the name c is still unknown
C12_Witness ==
    /\ is_ready /\ reply.cmd = "game"
    /\ LazilyCreated(PM, <<"a">>) /\ LazilyCreated(PM, <<"b">>)
    /\ PM.alias_to_id[<<"a">>] # PM.alias_to_id[<<"b">>]
    /\ ~alias_exists(PM, <<"c">>)

\* the case of C13: a set of proposed aliases, no name given twice, none of
\* them bound by alias_to_id to a claimed player, which the alias command
\* lets through
ClaimCase(pm, names) ==
    /\ Len(names) > 0
    /\ Cardinality(Range(names)) = Len(names)
    /\ \A a \in Range(names) :
           alias_exists(pm, a) => pm.alias_to_id[a] \notin claimed_ids(pm)
    /\ extract_claims(pm, names) = {}

\* the unclaimed players that own one of the proposed aliases
Absorbed(pm, names) ==
    {i \in DOMAIN pm.id_to_player :
        /\ ~pm.id_to_player[i].claimed
        /\ \E a \in Range(names) : alias_exists(pm, a) /\ pm.alias_to_id[a] = i}

\* what C13 says of the registry left by associate_aliases(user_id, names)
MergedInto(pm, after, user_id, names) ==
    /\ id_exists(after, user_id)
    /\ after.id_to_player[user_id].claimed
    /\ \A a \in Range(names) :
           alias_exists(after, a) /\ after.alias_to_id[a] = user_id
    /\ Range(names) \subseteq after.id_to_player[user_id].aliases
    /\ \A i \in Absorbed(pm, names) :
           /\ pm.id_to_player[i].aliases \subseteq after.id_to_player[user_id].aliases
           /\ ~id_exists(after, i)
    /\ \A i \in DOMAIN pm.id_to_player \ (Absorbed(pm, names) \cup {user_id}) :
           id_exists(after, i) /\ after.id_to_player[i] = pm.id_to_player[i]

\* C13: when a user claims aliases none of which alias_to_id binds to a
\* claimed player, associate_aliases returns and leaves every proposed alias
\* resolving to the user's claimed player, whose aliases hold them all and
\* those of the unclaimed owners, these owners gone and nobody else touched.
C13_ClaimMerge ==
    (is_ready /\ HasPM) =>
        \A u \in Users, names \in AliasBatches :
            ClaimCase(PM, names) =>
                LET r == associate_aliases(PM, u, names)
                IN  r.err = "none" /\ MergedInto(PM, r.pm, u, names)

\* the players of ranks first..last, in rank order
RanksBetween(rk, first, last) ==
    [k \in 1..(IF last >= first THEN last - first + 1 ELSE 0) |-> rk[first + k - 1]]

Smaller(a, b) == IF a < b THEN a ELSE b

\* C14: a listing sent for 1 <= start holds exactly the players of the
\* ranks r with start <= r < stop and r <= N, in rank order (none when the
\* range lies beyond N).
C14_HalfOpenSlice ==
    (reply.cmd = "leaderboard" /\ reply.out = "leaderboard" /\ listing.start >= 1)
        => listing.players =
               RanksBetween(ranking, listing.start,
                            Smaller(listing.stop - 1, Len(ranking)))

\* C15: the leaderboard command either refuses with the at-most-30-lines
\* reply or lists at most 30 players.
C15_AtMostThirty ==
    reply.cmd = "leaderboard"
        => reply.out = "at_most_30" \/ Len(listing.players) <= LeaderboardLimit

HasSeparator(name) == \E i \in 1..Len(name) : name[i] \in {",", "\n"}

\* the names of the logged games: as posted, and as stored in the log
LoggedNames ==
    UNION {{[posted |-> matchboard[raw_results[k].id].winner,
             stored |-> raw_results[k].winner],
            [posted |-> matchboard[raw_results[k].id].loser,
             stored |-> raw_results[k].loser]} : k \in 1..Len(raw_results)}

\* C16: two posted names that contain a ',' or a newline and differ after
\* trimming are never stored as the same text.
C16_CleanNameInjective ==
    \A p, q \in LoggedNames :
        (HasSeparator(p.posted) /\ HasSeparator(q.posted)
            /\ Strip(p.posted) # Strip(q.posted))
                => p.stored # q.stored

\* C17: for the claimed-alias table T of every registry reached, the file
\* save_aliases(T) writes is read back by load_alias_tables as T itself,
\* with an alias_to_id that maps every alias of T to its owner.
C17_SnapshotRoundTrip ==
    HasPM =>
        LET T == id_to_claimed_aliases(PM)
        IN  \A ids \in Orders(DOMAIN T), ord \in AliasOrders(T) :
                LET t == load_alias_tables(save_aliases(T, ids, ord), 1,
                             [alias_to_id |-> EmptyDict, id_to_aliases |-> EmptyDict,
                              order |-> <<>>])
                IN  /\ t.id_to_aliases = T
                    /\ \A i \in DOMAIN T : \A a \in T[i] :
                           a \in DOMAIN t.alias_to_id /\ t.alias_to_id[a] = i

LoggedIds == {raw_results[k].id : k \in 1..Len(raw_results)}

\* C19: the log never holds an event while an event posted before it is
\* missing from it.
C19_NoEventLost ==
    \A j \in LoggedIds : \A i \in 1..(j - 1) : i \in LoggedIds

IsPrefix(p, q) == Len(p) <= Len(q) /\ SubSeq(q, 1, Len(p)) = p

\* C18: the log only grows at its end, no event id appears twice in it,
\* what get_game_results appends are the matchboard events after the last
\* logged one, and a second run with no new event appends nothing.
C18_ResumeNoDuplicate ==
    /\ [](\A i, j \in 1..Len(raw_results) :
              raw_results[i].id = raw_results[j].id => i = j)
    /\ [](LET g == get_game_results(raw_results, matchboard)
          IN  /\ IsPrefix(raw_results, g.log)
              /\ g.games = g.log
              /\ get_game_results(g.log, matchboard).log = g.log)
    /\ [][IsPrefix(raw_results, raw_results')]_vars

\* C20: at most one on_ready handler builds a PlayerManager, loads the alias
\* table and replays the log; any other one has not started or has returned
\* through the guard.
C20_InitializedOnce ==
    \A h \in Handlers :
        handlers[h].pm # <<>> => handlers[Other(h)].pc \in {"idle", "refused"}

\* C21: whenever associate_aliases, called by the alias command, raises, the
\* registry (alias_to_id and id_to_player) is as it was before the call.
C21_ClaimAllOrNothing ==
    (HasPM /\ is_ready) =>
        \A user_id \in Users, names \in AliasBatches :
            LET r == alias(PM, user_id, names)
            IN  (r.associated /\ r.out = "KeyError") => r.pm = PM

\* C22: any two operations on the same file hold the same named lock, and no
\* two tasks are inside the bodies of operations on the same file at once.
C22_SingleSection ==
    /\ \A f \in Files : Cardinality(sections[f]) <= 1
    /\ \A t, u \in Tasks :
           (t # u /\ Inside(t) /\ Inside(u)) => FileOf(tasks[t].op) # FileOf(tasks[u].op)

\* C23: the keys of a player's states are strictly increasing in insertion
\* order, and no save_state replaces or removes a snapshot saved earlier: it
\* leaves the history as it was or adds to it.
C23_ChronologicalHistory ==
    /\ [](\A i, j \in 1..Len(states) : i < j => states[i].key < states[j].key)
    /\ [][/\ Len(states') >= Len(states)
          /\ \A i \in 1..Len(states) : states'[i] = states[i]]_vars

====
